---- MODULE Spec2Model ----
(***************************************************************************)
(* The egg scene of KornelijusGlinskas/eastereggs, in its two variants:    *)
(*   "timer"  src/src/App.tsx       7 eggs, no facing gate, a 3000 ms      *)
(*                                  auto-clear timer on the selection      *)
(*   "gated"  src/unnamed/part_000  8 eggs, facing gate, no timer          *)
(*                                                                         *)
(* Units.  Zoom is kept in thousandths (zoom 1 is 1000), so that           *)
(* z + deltaX * 0.001 is zoom + deltaX.  Angles are whole degrees          *)
(* (Math.PI is 180).  Time is milliseconds.  Heights are tenths.  The      *)
(* Droplet's progress t is a whole number of 1/ProgressUnits.              *)
(*                                                                         *)
(* React state.  dropped, selectedEgg and zoom hold the value of the       *)
(* useState hook with every queued update applied, in order.  rendered is  *)
(* what the last commit saw: the closures handed to the eggs               *)
(* (handleCrack) read rendered.dropped, and the effects and the JSX were   *)
(* computed from it.  render is the commit of the next render.             *)
(*                                                                         *)
(* Not modelled: the Egg's own useFrame easing (spin, raise, scale) and    *)
(* the Droplet's rotation, which no other part of the program reads.       *)
(* OrbitControls is the library's: here it turns the camera about the      *)
(* vertical axis and keeps its distance.                                   *)
(*                                                                         *)
(* Spec is the whole program.  Its state space is the product of the       *)
(* interaction, zoom, camera and animation paths, so each property is      *)
(* checked under the specification of the paths it is about: SpecCrack,    *)
(* SpecGate, SpecWheel, SpecZoom, SpecDrop.                                *)
(***************************************************************************)
EXTENDS Integers, Sequences, FiniteSets, TLC

VARIABLES
    variant,           \* which of the two source files is running
    dropped,           \* useState<number[]>([])          (App)
    selectedEgg,       \* useState<number | null>(null)   (App)
    zoom,              \* useState(1), in thousandths     (App)
    rendered,          \* the state values of the last commit
    drawer,            \* the bottom-drawer element of the last commit
    droplets,          \* the mounted Droplet instances, one per rendered.dropped entry
    camera,            \* camera.position in the XZ plane, polar: angle (deg), dist (thousandths)
    selectionTimeout,  \* selectionTimeout.current (timer variant)
    timers,            \* the window's pending setTimeout callbacks
    now,               \* the clock, ms
    console,           \* console.log: how many eggs were reported as behind, and the last one
    cracks             \* how many handleCrack calls have run (bounds the model)

vars == <<variant, dropped, selectedEgg, zoom, rendered, drawer, droplets,
          camera, selectionTimeout, timers, now, console, cracks>>

\* null: no egg index, no timer handle
Null == -1

----------------------------------------------------------------------------
\* Bounds of the model

\* handleCrack calls in one behaviour
MaxCracks == 3
\* clock ticks in one behaviour
MaxTicks == 5
\* the Droplet's progress is counted in 1/ProgressUnits
ProgressUnits == 2

----------------------------------------------------------------------------
\* Static content

Variants == {"timer", "gated"}

eggDataTimer ==
    << [color |-> "#DAA520", title |-> "Auksinis kiausinis",   task |-> "Nupiesk Donalda Trumpa"],
       [color |-> "#FF69B4", title |-> "Rozinis kiausinis",    task |-> "Nupiesk saltibarsciu dubeneli su kiausiniu viduryje."],
       [color |-> "#7CFC00", title |-> "Zalias kiausinis",     task |-> "Nupiesk stilizuota zolynais apaugusia Velyku zuikio sleptuve."],
       [color |-> "#1E90FF", title |-> "Melynas kiausinis",    task |-> "Nupiesk lietaus laselius ir sketi su lietuviskais rastais."],
       [color |-> "#FFD700", title |-> "Geltonas kiausinis",   task |-> "Nupiesk kiausini kaip Gaidelio sausaini su snapeliu ir sparnais."],
       [color |-> "#FF4500", title |-> "Raudonas kiausinis",   task |-> "Nupiesk tradicini lietuviska marguciu rasta, kuris simbolizuotu greiti ir judejima."],
       [color |-> "#8A2BE2", title |-> "Purpurinis kiausinis", task |-> "Nupiesk magiska pavasarine gele, kuri issiskleidzia tik per Velykas."] >>

eggDataGated ==
    << [color |-> "#FFB300", title |-> "Auksinis kiausinis",   task |-> "Nupiesk paprasta kryziu."],
       [color |-> "#FFC0CB", title |-> "Rozinis kiausinis",    task |-> "Nupiesk piliakalni."],
       [color |-> "#228B22", title |-> "Zalias kiausinis",     task |-> "Nupiesk medzio saka."],
       [color |-> "#87CEEB", title |-> "Melynas kiausinis",    task |-> "Nupiesk laiveli."],
       [color |-> "#FFD700", title |-> "Geltonas kiausinis",   task |-> "Nupiesk laukuose svieciancia saule."],
       [color |-> "#8B0000", title |-> "Raudonas kiausinis",   task |-> "Nupiesk pili."],
       [color |-> "#9370DB", title |-> "Purpurinis kiausinis", task |-> "Nupiesk karuna."],
       [color |-> "#000000", title |-> "Juodas kiausinis",     task |-> "Nupiesk kalna nakti."] >>

\* eggData of the running file; the story of egg i is written <<"story", i>>
\* (the text itself plays no part in any decision of the program).
eggData(v) ==
    LET table == IF v = "timer" THEN eggDataTimer ELSE eggDataGated
    IN  [k \in 1..Len(table) |->
            [color |-> table[k].color, story |-> <<"story", v, k - 1>>, task |-> table[k].task]]

\* eggData.length
eggCount(v) == Len(eggData(v))

\* the indices eggData.map((egg, i) => ...) hands to handleCrack
Eggs(v) == 0..(eggCount(v) - 1)

\* yOffset of positions[i][1], tenths
yOffset(v) == IF v = "timer" THEN 15 ELSE 10

----------------------------------------------------------------------------
\* Pure helpers

Abs(x) == IF x < 0 THEN -x ELSE x

Min(a, b) == IF a < b THEN a ELSE b

Max(a, b) == IF a > b THEN a ELSE b

Range(s) == {s[k] : k \in 1..Len(s)}

\* Array.prototype.includes
Includes(s, i) == \E k \in 1..Len(s) : s[k] = i

\* clamp with its upper limit forgotten
clampNoUpper(value, lo, hi) == Max(lo, value)

\* THREE.MathUtils.clamp(value, min, max) = Math.max(min, Math.min(max, value))
clamp(value, lo, hi) == Max(lo, Min(hi, value))

\* THREE.MathUtils.lerp(x, y, t) = (1 - t) * x + t * y, with t counted in
\* 1/ProgressUnits: the result is ProgressUnits times the height.
lerp(x, y, t) == (ProgressUnits - t) * x + t * y

\* Math.atan2(Math.sin(d), Math.cos(d)): d brought into (-180, 180]
normalizeAngle(d) ==
    LET m == d % 360
    IN  IF m > 180 THEN m - 360 ELSE m

\* the zoom limits of handleWheel, thousandths
ZoomMin == 500
ZoomMax == 2000

\* the zoom of useState(1), thousandths
ZoomInit == 1000

\* 10 / zoom, in thousandths (zoom is in thousandths)
cameraDistance(z) == (10 * 1000 * 1000) \div z

\* Math.PI / 2.5, degrees
thresholdAngle == 72

\* the delay of window.setTimeout(..., 3000), ms
SelectionDelay == 3000

\* the clock advances in thirds of the delay
TickMs == SelectionDelay \div 3

----------------------------------------------------------------------------
\* Inputs

\* WheelEvent.deltaX and deltaY, in the unit that deltaX * 0.001 turns into
\* thousandths of zoom
DeltaXs == {-3000, -500, 0, 500, 3000}
DeltaYs == {-1000, 0, 500}

\* horizontal angles OrbitControls can bring the camera to: the four axes
\* and one diagonal (every egg of a ring of 8 is in front from one of them),
\* one angle between two eggs (20), and two angles that put an egg exactly
\* on the gate's threshold (18 and 72)
CameraAngles == {a \in 0..359 : a % 90 = 0} \cup {18, 20, 45, 72}

\* the eggs cracked where the claim is about something else than the egg:
\* from the camera's first position the gate lets 1 and 2 through and stops 5
SampleEggs == {1, 2, 5}

\* the delta of a frame, in 1/ProgressUnits of a second
FrameDeltas == 0..(ProgressUnits + 1)

----------------------------------------------------------------------------
\* Initial state: the first commit of App

\* camera.position.set(0, 5, 10 / zoom): on the z axis, so atan2(z, x) is 90
zoomCamera(z) == [angle |-> 90, dist |-> cameraDistance(z)]

\* the drawer guarded by {selectedEgg && ...}: index 0 is falsy
bottomDrawerTruthy(v, sel) ==
    IF sel # Null /\ sel # 0
    THEN [visible |-> TRUE,
          background |-> eggData(v)[sel + 1].color,
          story |-> eggData(v)[sel + 1].story,
          task |-> eggData(v)[sel + 1].task]
    ELSE [visible |-> FALSE]

\* {selectedEgg !== null && <div className="bottom-drawer" ...>}
bottomDrawer(v, sel) ==
    IF sel # Null
    THEN [visible |-> TRUE,
          background |-> eggData(v)[sel + 1].color,
          story |-> eggData(v)[sel + 1].story,
          task |-> eggData(v)[sel + 1].task]
    ELSE [visible |-> FALSE]

Init ==
    /\ variant \in Variants
    /\ dropped = <<>>
    /\ selectedEgg = Null
    /\ zoom = ZoomInit
    /\ rendered = [dropped |-> <<>>, selectedEgg |-> Null, zoom |-> ZoomInit]
    /\ drawer = bottomDrawer(variant, Null)
    /\ droplets = <<>>
    /\ camera = zoomCamera(ZoomInit)
    /\ selectionTimeout = Null
    /\ timers = {}
    /\ now = 0
    /\ console = [lines |-> 0, last |-> Null]
    /\ cracks = 0

----------------------------------------------------------------------------
\* handleCrack

\* the facing test with <= for <
inFrontInclusive(i, n, cameraAngle) ==
    Abs(normalizeAngle((i * 360) \div n - cameraAngle)) <= thresholdAngle

\* the facing test of EggScene.handleCrack, for egg i of n and the camera's
\* horizontal angle atan2(camera.position.z, camera.position.x)
inFront(i, n, cameraAngle) ==
    LET eggAngle == (i * 360) \div n
        angleDiff == normalizeAngle(eggAngle - cameraAngle)
    IN  Abs(angleDiff) < thresholdAngle

\* "drop egg once" with the test negated
dropOnceInverted(v, snapshot, current, i) ==
    IF ~Includes(snapshot, i)
    THEN current
    ELSE IF v = "timer" THEN Append(snapshot, i) ELSE Append(current, i)

\* "drop egg once": what the setDropped call of handleCrack(i) leaves in the
\* hook.  snapshot is the dropped of the closure, current the hook's value.
\*   timer:  if (!dropped.includes(i)) setDropped([...dropped, i])
\*   gated:  if (!dropped.includes(i)) setDropped(prev => [...prev, i])
dropOnce(v, snapshot, current, i) ==
    IF Includes(snapshot, i)
    THEN current
    ELSE IF v = "timer" THEN Append(snapshot, i) ELSE Append(current, i)

\* handleCrack without its clearTimeout
resetTimerKeep(pending, handle) == pending

\* if (selectionTimeout.current) clearTimeout(selectionTimeout.current)
resetTimer(pending, handle) ==
    IF handle # Null THEN {t \in pending : t.id # handle} ELSE pending

\* the handle window.setTimeout returns: a positive number no pending timer
\* and no kept handle has
freshHandle(pending, handle) ==
    CHOOSE id \in 1..(Cardinality(pending) + 2) :
        /\ id # handle
        /\ \A t \in pending : t.id # id

\* App.handleCrack (src/src/App.tsx)
handleCrackTimer(i) ==
    /\ variant = "timer"
    /\ cracks < MaxCracks
    /\ cracks' = cracks + 1
    /\ dropped' = dropOnce(variant, rendered.dropped, dropped, i)
    /\ selectedEgg' = i
    /\ LET kept == resetTimer(timers, selectionTimeout)
           id == freshHandle(kept, selectionTimeout)
       IN  /\ timers' = kept \cup {[id |-> id, at |-> now, delay |-> SelectionDelay]}
           /\ selectionTimeout' = id
    /\ UNCHANGED <<variant, zoom, rendered, drawer, droplets, camera, now, console>>

\* EggScene.handleCrack (src/unnamed/part_000)
handleCrackGated(i) ==
    /\ variant = "gated"
    /\ cracks < MaxCracks
    /\ cracks' = cracks + 1
    /\ IF inFront(i, eggCount(variant), camera.angle)
       THEN /\ dropped' = dropOnce(variant, rendered.dropped, dropped, i)
            /\ selectedEgg' = i
            /\ UNCHANGED console
       ELSE /\ console' = [lines |-> console.lines + 1, last |-> i]
            /\ UNCHANGED <<dropped, selectedEgg>>
    /\ UNCHANGED <<variant, zoom, rendered, drawer, droplets, camera,
                   selectionTimeout, timers, now>>

\* the timeout callback () => setSelectedEgg(null), run when its delay is over
timerFire ==
    \E t \in timers :
        /\ now >= t.at + t.delay
        /\ timers' = timers \ {t}
        /\ selectedEgg' = Null
        /\ UNCHANGED <<variant, dropped, zoom, rendered, drawer, droplets, camera,
                       selectionTimeout, now, console, cracks>>

\* the clock moves on; a callback that is due runs before it does
tick ==
    /\ now < MaxTicks * TickMs
    /\ \A t \in timers : now < t.at + t.delay
    /\ now' = now + TickMs
    /\ UNCHANGED <<variant, dropped, selectedEgg, zoom, rendered, drawer, droplets,
                   camera, selectionTimeout, timers, console, cracks>>

----------------------------------------------------------------------------
\* Zoom and camera

\* handleWheel with >= for >
wheelZoomInclusive(z, deltaX, deltaY) ==
    IF Abs(deltaX) >= Abs(deltaY) THEN clamp(z + deltaX, ZoomMin, ZoomMax) ELSE z

\* handleWheel: setZoom(z => clamp(z + e.deltaX * 0.001, 0.5, 2)) when the
\* gesture is mostly horizontal
wheelZoom(z, deltaX, deltaY) ==
    IF Abs(deltaX) > Abs(deltaY) THEN clamp(z + deltaX, ZoomMin, ZoomMax) ELSE z

handleWheel(deltaX, deltaY) ==
    /\ zoom' = wheelZoom(zoom, deltaX, deltaY)
    /\ UNCHANGED <<variant, dropped, selectedEgg, rendered, drawer, droplets, camera,
                   selectionTimeout, timers, now, console, cracks>>

\* OrbitControls, polar angle locked: the user turns the camera about the
\* vertical axis through the origin
orbit(a) ==
    /\ a # camera.angle
    /\ camera' = [camera EXCEPT !.angle = a]
    /\ UNCHANGED <<variant, dropped, selectedEgg, zoom, rendered, drawer, droplets,
                   selectionTimeout, timers, now, console, cracks>>

----------------------------------------------------------------------------
\* Droplet

\* startY and endY of Droplet, tenths
startY(v) == yOffset(v) + 20
endY(v) == yOffset(v) + 2

\* a Droplet as mounted: useState(0), and the mesh at position[1] + 2.
\* y is ProgressUnits times the height.
mountDroplet(v) == [t |-> 0, y |-> ProgressUnits * startY(v)]

\* the useFrame callback of one Droplet: setT(v => Math.min(1, v + delta)) and
\* position.y = lerp(startY, endY, t), t being the value of the render whose
\* closure runs.  The Droplet re-renders between two frames.
frameDroplet(v, d, delta) ==
    [t |-> Min(ProgressUnits, d.t + delta),
     y |-> lerp(startY(v), endY(v), d.t)]

\* a frame: every mounted Droplet's useFrame callback runs with the same delta
frame(delta) ==
    /\ droplets # <<>>
    /\ droplets' = [k \in 1..Len(droplets) |-> frameDroplet(variant, droplets[k], delta)]
    /\ UNCHANGED <<variant, dropped, selectedEgg, zoom, rendered, drawer, camera,
                   selectionTimeout, timers, now, console, cracks>>

----------------------------------------------------------------------------
\* Commit of a render

\* React's reconciliation of {dropped.map(i => <Droplet key={i} />)}: the
\* children are matched in place while the keys agree, then by key among the
\* old children left; whatever matches nothing is mounted.
reconcile(v, old, mounted, new) ==
    LET agree == {p \in 0..Min(Len(old), Len(new)) : \A k \in 1..p : old[k] = new[k]}
        p == CHOOSE q \in agree : \A r \in agree : r <= q
        left(k) == {j \in (p + 1)..Len(old) : old[j] = new[k]}
    IN  [k \in 1..Len(new) |->
            IF k <= p THEN mounted[k]
            ELSE IF left(k) # {}
                 THEN mounted[CHOOSE j \in left(k) : \A r \in left(k) : r <= j]
                 ELSE mountDroplet(v)]

\* ZoomController's effect without its dependency list: it runs on every commit
zoomControllerNoDeps(cam, before, after) == zoomCamera(after)

\* ZoomController: useEffect(() => camera.position.set(0, 5, 10 / zoom), [zoom, camera])
zoomController(cam, before, after) ==
    IF after # before THEN zoomCamera(after) ELSE cam

render ==
    /\ <<dropped, selectedEgg, zoom>> # <<rendered.dropped, rendered.selectedEgg, rendered.zoom>>
    /\ rendered' = [dropped |-> dropped, selectedEgg |-> selectedEgg, zoom |-> zoom]
    /\ drawer' = bottomDrawer(variant, selectedEgg)
    /\ droplets' = reconcile(variant, rendered.dropped, droplets, dropped)
    /\ camera' = zoomController(camera, rendered.zoom, zoom)
    /\ UNCHANGED <<variant, dropped, selectedEgg, zoom, selectionTimeout, timers,
                   now, console, cracks>>

----------------------------------------------------------------------------
\* Specifications

Next ==
    \/ \E i \in Eggs(variant) : handleCrackTimer(i)
    \/ \E i \in Eggs(variant) : handleCrackGated(i)
    \/ timerFire
    \/ tick
    \/ \E deltaX \in DeltaXs, deltaY \in DeltaYs : handleWheel(deltaX, deltaY)
    \/ \E a \in CameraAngles : orbit(a)
    \/ \E delta \in FrameDeltas : frame(delta)
    \/ render

Spec == Init /\ [][Next]_vars

\* the interaction controller: cracks, commits and the auto-clear timer, the
\* camera staying where the first commit put it
NextCrack ==
    \/ \E i \in Eggs(variant) : handleCrackTimer(i)
    \/ \E i \in Eggs(variant) : handleCrackGated(i)
    \/ timerFire
    \/ tick
    \/ render

SpecCrack == Init /\ [][NextCrack]_vars

\* the gated variant running
InitGated == Init /\ variant = "gated"

\* the facing gate: cracks and commits of the gated variant under an
\* orbiting camera
NextGate ==
    \/ \E i \in Eggs(variant) : handleCrackGated(i)
    \/ \E a \in CameraAngles : orbit(a)
    \/ render

SpecGate == InitGated /\ [][NextGate]_vars

\* the zoom path in either variant: wheel events, cracks of a few eggs, the
\* auto-clear timer and commits, the camera not orbiting
NextWheel ==
    \/ \E i \in SampleEggs : handleCrackTimer(i)
    \/ \E i \in SampleEggs : handleCrackGated(i)
    \/ \E deltaX \in DeltaXs, deltaY \in DeltaYs : handleWheel(deltaX, deltaY)
    \/ timerFire
    \/ tick
    \/ render

SpecWheel == Init /\ [][NextWheel]_vars

\* the camera of the gated variant: wheel events, commits, orbiting, and
\* cracks of a few eggs
NextZoom ==
    \/ \E i \in SampleEggs : handleCrackGated(i)
    \/ \E deltaX \in DeltaXs, deltaY \in DeltaYs : handleWheel(deltaX, deltaY)
    \/ \E a \in CameraAngles : orbit(a)
    \/ render

SpecZoom == InitGated /\ [][NextZoom]_vars

\* the drop animation: cracks, commits and frames
NextDrop ==
    \/ \E i \in Eggs(variant) : handleCrackTimer(i)
    \/ \E i \in Eggs(variant) : handleCrackGated(i)
    \/ \E delta \in FrameDeltas : frame(delta)
    \/ render

SpecDrop == Init /\ [][NextDrop]_vars

----------------------------------------------------------------------------
\* Claims

NoDuplicates(s) == \A k, l \in 1..Len(s) : k # l => s[k] # s[l]

\* C1 (as claimed): dropped is monotonic.  No step removes an index from
\* dropped: whatever index is in dropped before a step is in it after the
\* step, for cracks run from the same rendered snapshot too.
C1_DroppedMonotonic ==
    [][\A i \in Range(dropped) : i \in Range(dropped')]_vars

\* C2 (as claimed): crack is idempotent on dropped.  dropped never holds the
\* same index twice, and no index has two Droplets mounted, for cracks run
\* from the same rendered snapshot too.
C2_CrackIdempotent ==
    /\ NoDuplicates(dropped)
    /\ NoDuplicates(rendered.dropped)
    /\ Len(droplets) = Cardinality(Range(rendered.dropped))

\* C9: an egg that is selected has been dropped.  Whenever selectedEgg is an
\* index, that index is in dropped; this holds of the hook's values and of
\* the values of the last commit.
C9_SelectedIsDropped ==
    /\ selectedEgg # Null => selectedEgg \in Range(dropped)
    /\ rendered.selectedEgg # Null => rendered.selectedEgg \in Range(rendered.dropped)

\* C9's case: in the timer variant, after a commit that showed dropped = [1],
\* crack(2) and then crack(1) ran from that same snapshot.
C9_Witness ==
    /\ variant = "timer"
    /\ rendered.dropped = <<1>>
    /\ dropped = <<1, 2>>
    /\ selectedEgg = 1
    /\ cracks = 3


\* C3: auto-clear is last-crack-wins (timer variant).  At most one timeout
\* callback is pending, and it is the one the latest crack scheduled
\* (selectionTimeout holds its handle); the selection is shown exactly while
\* that callback is pending; the callback never runs late; and the selection
\* turns to none only in a step taken 3000 ms after the crack that scheduled
\* the pending callback, which is the most recent crack, since every crack
\* leaves its own callback, stamped with the time of the crack, as the only
\* one pending.
C3_OneTimer ==
    variant = "timer" =>
        /\ Cardinality(timers) <= 1
        /\ \A t \in timers : t.id = selectionTimeout /\ t.delay = 3000 /\ now <= t.at + 3000
        /\ selectedEgg # Null <=> timers # {}

C3_ClearStep ==
    /\ (selectedEgg # Null /\ selectedEgg' = Null) =>
           /\ \E t \in timers : t.id = selectionTimeout /\ now = t.at + 3000
           /\ timers' = {}
    /\ (variant = "timer" /\ cracks' # cracks) =>
           /\ selectedEgg' # Null
           /\ \E t \in timers' : timers' = {t} /\ t.at = now /\ t.id = selectionTimeout'

C3_LastCrackWins == []C3_OneTimer /\ [][C3_ClearStep]_vars

\* C3's case: crack(2) at 0 ms and crack(5) at 1000 ms; at 3000 ms, the mark
\* of the first crack, egg 5 is still selected and the only pending callback
\* is the one scheduled at 1000 ms.
C3_Witness ==
    /\ variant = "timer"
    /\ now = 3000
    /\ dropped = <<2, 5>>
    /\ selectedEgg = 5
    /\ \E t \in timers : t.at = 1000

\* C4: the facing gate (gated variant).  A handleCrack(i) step selects and
\* drops egg i when the egg's angle i * 360 / N is less than 72 degrees away
\* from the camera's horizontal angle, and otherwise changes neither dropped
\* nor selectedEgg (it only logs).  With 8 eggs and the camera at angle 0
\* this rejects crack(4) and accepts crack(0).
C4_Near(i, n, a) == \E k \in {-1, 0, 1} : Abs((i * 360) \div n - a + 360 * k) < 72

C4_GateStep ==
    \A i \in Eggs(variant) :
        handleCrackGated(i) =>
            IF C4_Near(i, eggCount(variant), camera.angle)
            THEN selectedEgg' = i /\ Includes(dropped', i) /\ console' = console
            ELSE /\ dropped' = dropped /\ selectedEgg' = selectedEgg
                 /\ console'.last = i /\ console'.lines = console.lines + 1

C4_AtAngleZero ==
    (variant = "gated" /\ camera.angle = 0 /\ cracks < MaxCracks) =>
        /\ eggCount(variant) = 8
        /\ ENABLED (handleCrackGated(0) /\ selectedEgg' = 0 /\ Includes(dropped', 0))
        /\ ENABLED (handleCrackGated(4) /\ UNCHANGED <<dropped, selectedEgg>>)
        /\ ~ENABLED (handleCrackGated(4) /\ ~UNCHANGED <<dropped, selectedEgg>>)
        /\ ~ENABLED (handleCrackGated(0) /\ console' # console)

C4_FacingGate == []C4_AtAngleZero /\ [][C4_GateStep]_vars

\* C4's case: with the camera at angle 0, crack(4) was turned away (it is the
\* last line logged) and crack(0) went through.
C4_Witness ==
    /\ variant = "gated"
    /\ camera.angle = 0
    /\ console = [lines |-> 1, last |-> 4]
    /\ selectedEgg = 0
    /\ dropped = <<0>>

\* C5: the zoom scalar stays within [0.5, 2.0], in the hook and in every
\* commit, so that 10 / zoom is defined and the camera distance the
\* ZoomController sets is within [5, 20].
C5_ZoomClamped ==
    /\ zoom >= 500 /\ zoom <= 2000
    /\ rendered.zoom >= 500 /\ rendered.zoom <= 2000
    /\ cameraDistance(zoom) >= 5000 /\ cameraDistance(zoom) <= 20000
    /\ camera.dist >= 5000 /\ camera.dist <= 20000

\* C5's case: the zoom went below 1 to its lower limit, was committed, and the
\* camera stands at distance 20.
C5_Witness ==
    /\ zoom = 500
    /\ rendered.zoom = 500
    /\ camera.dist = 20000

\* C6: the caption panel is a projection of the selected index.  The drawer
\* of the last commit is visible exactly when that commit's selectedEgg is
\* not none; when visible, the index is a valid one and the drawer shows the
\* color, story and task of eggData[selectedEgg]; and the hook never holds an
\* index outside [0, N).
C6_CaptionProjection ==
    LET sel == rendered.selectedEgg
    IN  /\ selectedEgg = Null \/ selectedEgg \in 0..(eggCount(variant) - 1)
        /\ drawer.visible <=> sel # Null
        /\ drawer.visible =>
               /\ sel \in 0..(eggCount(variant) - 1)
               /\ drawer.background = eggData(variant)[sel + 1].color
               /\ drawer.story = eggData(variant)[sel + 1].story
               /\ drawer.task = eggData(variant)[sel + 1].task

\* C6's case: egg 0 of the timer variant was cracked and committed, and the
\* drawer shows its color.
C6_Witness ==
    /\ variant = "timer"
    /\ rendered.selectedEgg = 0
    /\ drawer.visible
    /\ drawer.background = "#DAA520"

\* C7 (as claimed): every Droplet's progress is within [0, 1], never
\* decreases, and the marker is at base height + 2 at progress 0 and at base
\* height + 0.2 once progress has reached 1.
C7_Position ==
    \A k \in 1..Len(droplets) :
        /\ droplets[k].t >= 0 /\ droplets[k].t <= ProgressUnits
        /\ droplets[k].t = 0 => droplets[k].y = ProgressUnits * (yOffset(variant) + 20)
        /\ droplets[k].t = ProgressUnits => droplets[k].y = ProgressUnits * (yOffset(variant) + 2)

C7_Monotone ==
    \A k \in 1..Len(droplets) : k <= Len(droplets') => droplets'[k].t >= droplets[k].t

C7_DropAnimation == []C7_Position /\ [][C7_Monotone]_vars

\* C8: scroll is an independent path.  In every reachable state, the
\* handleWheel step of a wheel event with |deltaX| <= |deltaY| leaves zoom as
\* it is and the one of an event with |deltaX| > |deltaY| sets it to
\* clamp(zoom + deltaX * 0.001, 0.5, 2.0); and a step that changes zoom is
\* such a step and leaves dropped, selectedEgg and the pending auto-clear
\* timer as they are (a wheel step that changes no zoom changes nothing).
C8_Zoomed(z, deltaX, deltaY) ==
    IF Abs(deltaX) <= Abs(deltaY) THEN z
    ELSE IF z + deltaX < 500 THEN 500
    ELSE IF z + deltaX > 2000 THEN 2000
    ELSE z + deltaX

C8_EveryWheel ==
    \A deltaX \in DeltaXs, deltaY \in DeltaYs :
        ENABLED (handleWheel(deltaX, deltaY) /\ zoom' = C8_Zoomed(zoom, deltaX, deltaY))

C8_WheelStep ==
    zoom' # zoom =>
        /\ \E deltaX \in DeltaXs, deltaY \in DeltaYs :
               Abs(deltaX) > Abs(deltaY) /\ zoom' = C8_Zoomed(zoom, deltaX, deltaY)
        /\ dropped' = dropped
        /\ selectedEgg' = selectedEgg
        /\ timers' = timers
        /\ selectionTimeout' = selectionTimeout

C8_ScrollIndependent == []C8_EveryWheel /\ [][C8_WheelStep]_vars

\* C8's case: the zoom has moved while an egg is dropped and selected and its
\* auto-clear callback is pending.
C8_Witness ==
    /\ variant = "timer"
    /\ zoom = 1500
    /\ dropped = <<2>>
    /\ selectedEgg = 2
    /\ timers # {}

\* C10: a commit with a changed zoom puts the camera at (0, 5, 10 / zoom),
\* whose horizontal angle is 90 degrees, wherever it had been orbited to; from
\* there, and so in the initial state, the gate of the 8 eggs lets crack(i)
\* through exactly for i in {1, 2, 3}.  The camera moves in no other way
\* than by orbiting: a wheel event moves nothing, and neither does a commit
\* whose zoom is the one of the commit before.
C10_FromTheFront ==
    (variant = "gated" /\ camera.angle = 90 /\ cracks < MaxCracks) =>
        \A i \in 0..7 :
            /\ i \in {1, 2, 3} <=>
                   ENABLED (handleCrackGated(i) /\ selectedEgg' = i
                            /\ Includes(dropped', i) /\ console' = console)
            /\ i \in {0, 4, 5, 6, 7} <=>
                   ENABLED (handleCrackGated(i) /\ UNCHANGED <<dropped, selectedEgg>>
                            /\ console'.last = i /\ console'.lines = console.lines + 1)

C10_CameraStep ==
    /\ rendered'.zoom # rendered.zoom =>
           /\ camera'.angle = 90
           /\ camera'.dist = 10000000 \div rendered'.zoom
           /\ C10_FromTheFront'
    /\ (rendered'.zoom = rendered.zoom /\ camera' # camera) =>
           /\ camera'.dist = camera.dist
           /\ UNCHANGED <<dropped, selectedEgg, zoom, rendered>>
    /\ zoom' # zoom => camera' = camera

C10_ZoomResetsCamera == []C10_FromTheFront /\ [][C10_CameraStep]_vars

\* C10's case: the camera had been orbited to where egg 5 is in front, and
\* egg 5 cracked; a commit with a new zoom has put the camera back at 90
\* degrees, at the distance of that zoom; there crack(5) was turned away and
\* crack(1) went through.
C10_Witness ==
    /\ variant = "gated"
    /\ rendered.zoom = 1500
    /\ camera = [angle |-> 90, dist |-> 6666]
    /\ rendered.dropped = <<5>>
    /\ console = [lines |-> 1, last |-> 5]
    /\ dropped = <<5, 1>>
    /\ selectedEgg = 1

====
